---- MODULE Spec2Model ----
(***************************************************************************)
(* Model of class Channel (src/source.py): geometry of a prismatic         *)
(* trapezoidal channel, normal and critical depth, slope classification,   *)
(* downstream determination and the direct step method.                    *)
(*                                                                         *)
(* Numbers.  Python floats are modelled as fixed-point numbers: the        *)
(* integer v stands for the real v / FScale.  Products and quotients       *)
(* round toward zero.  One depth unit is 1 / FScale ft.                    *)
(***************************************************************************)
EXTENDS Integers, Sequences, FiniteSets, TLC

(* fixed-point resolution: v stands for v / FScale *)
FScale == 1024

(* number of subdivisions of |y1 - y2| (source.py:176) *)
NSteps == 1000

(* depths passed to the constructor are k * NSteps units, k in 1..MaxDepthK *)
MaxDepthK == 3

(* the while loop is followed for at most MaxOverrun samples past NSteps + 1 *)
MaxOverrun == 1

(* the default of y1 and y2 (source.py:26); depths are positive *)
None == -1

Abs(v) == IF v < 0 THEN -v ELSE v
Sgn(v) == IF v < 0 THEN -1 ELSE IF v > 0 THEN 1 ELSE 0

(* a * b and a / b on fixed-point numbers *)
FMul(a, c) == Sgn(a) * Sgn(c) * ((Abs(a) * Abs(c)) \div FScale)
FDiv(a, c) == Sgn(a) * Sgn(c) * ((Abs(a) * FScale) \div Abs(c))

(* integer square and cube roots (floor), by bisection *)
RECURSIVE ISqrtB(_, _, _)
ISqrtB(v, lo, hi) ==
    IF hi - lo <= 1 THEN lo
    ELSE LET m == (lo + hi) \div 2
         IN  IF m * m <= v THEN ISqrtB(v, m, hi) ELSE ISqrtB(v, lo, m)
ISqrt(v) == ISqrtB(v, 0, 46341)

RECURSIVE ICbrtB(_, _, _)
ICbrtB(v, lo, hi) ==
    IF hi - lo <= 1 THEN lo
    ELSE LET m == (lo + hi) \div 2
         IN  IF m * m * m <= v THEN ICbrtB(v, m, hi) ELSE ICbrtB(v, lo, m)
ICbrt(v) == ICbrtB(v, 0, 1291)

(* np.sqrt(v) and v ** (2/3) on fixed-point numbers *)
FSqrt(v) == ISqrt(v * FScale)
FPow23(v) == ICbrt(FMul(v, v) * FScale * FScale)

(* the literals 1.49, 32.2 and 64.4 *)
K149 == (149 * FScale) \div 100
G322 == (322 * FScale) \div 10
two_g == (644 * FScale) \div 10

(* ---- floats that may be inf or nan (a numpy division by zero) ---- *)
Num(v) == [k |-> "num", v |-> v]
PInf == [k |-> "inf", v |-> 0]
NInf == [k |-> "-inf", v |-> 0]
NaN == [k |-> "nan", v |-> 0]

(* a / d where d is a numpy float: d = 0 gives inf, -inf or nan, no exception *)
XDiv(a, d) ==
    IF d # 0 THEN Num(FDiv(a, d))
    ELSE IF a > 0 THEN PInf ELSE IF a < 0 THEN NInf ELSE NaN

XAdd(p, r) ==
    IF p.k = "nan" \/ r.k = "nan" THEN NaN
    ELSE IF p.k = "num" /\ r.k = "num" THEN Num(p.v + r.v)
    ELSE IF p.k = "num" THEN r
    ELSE IF r.k = "num" THEN p
    ELSE IF p.k = r.k THEN p ELSE NaN

XAbs(p) == IF p.k = "num" THEN Num(Abs(p.v)) ELSE IF p.k = "-inf" THEN PInf ELSE p

VARIABLES
    self,          \* the Channel's fields, set by __init__
    yround,        \* sign of the rounding error of ystart + step + ... + step
    pc,            \* "idle", or "loop": direct_step is at its while loop
    step, ystart, ystop, y, i,
    a_list, r_list, v_list, vhead_list, e_list, delta_e_list,
    sf_list, sf_avg_list, delta_x_list, cum_x_list,
    op, arg,       \* the last call: its name and its argument
    res,           \* what the last call raised, returned, printed and plotted
    probe, first,  \* a call chosen to be watched, and its first result
    tbl            \* inputs and results of the decision tables applied alone

fields == <<self, yround>>
locals == <<step, ystart, ystop, y, i, a_list, r_list, v_list, vhead_list,
            e_list, delta_e_list, sf_list, sf_avg_list, delta_x_list,
            cum_x_list>>
vars == <<fields, pc, locals, op, arg, res, probe, first, tbl>>

(* ---- geometry (source.py:44-69) ---- *)
top(d) == self.b + FMul(d, self.zleft + self.zright)

area(d) == FMul((self.b + top(d)) \div 2, d)

wet_perim(d) ==
    FSqrt(FMul(d, d) + FMul(FMul(d, self.zleft), FMul(d, self.zleft)))
    + self.b
    + FSqrt(FMul(d, d) + FMul(FMul(d, self.zright), FMul(d, self.zright)))

hyd_rad(d) == FDiv(area(d), wet_perim(d))

(* ---- scipy's fsolve, by its contract: the depth at which the increasing *)
(* function F crosses zero, searched between 0 and SolveMax units      ---- *)
SolveMax == 4096

norm(d) ==
    FMul(FMul(FMul(FDiv(K149, self.n), FSqrt(self.slope)), area(d)),
         FPow23(hyd_rad(d))) - self.q

crit(d) ==
    FDiv(FMul(FMul(area(d), area(d)), area(d)), top(d))
    - FDiv(FMul(self.q, self.q), G322)

(* the function handed to fsolve, by name *)
residual(f, d) == IF f = "norm" THEN norm(d) ELSE crit(d)

RECURSIVE fsolve_between(_, _, _)
fsolve_between(f, lo, hi) ==
    IF hi - lo <= 1 THEN hi
    ELSE LET m == (lo + hi) \div 2
         IN  IF residual(f, m) >= 0 THEN fsolve_between(f, lo, m)
             ELSE fsolve_between(f, m, hi)

fsolve(f) == fsolve_between(f, 0, SolveMax)

norm_depth == fsolve("norm")

crit_depth == fsolve("crit")

(* ---- results of a call ---- *)
Ret(v) == [exc |-> "", ret |-> v, out |-> <<>>, plot |-> <<>>]
Raise(e) == [exc |-> e, ret |-> "None", out |-> <<>>, plot |-> <<>>]
Pending == [exc |-> "", ret |-> "?", out |-> <<>>, plot |-> <<>>]

Point1 == "Point 1 is downstream of Point 2"
Point2 == "Point 2 is downstream of Point 1"

(* ---- slope_cat (source.py:102-112) ---- *)
slope_cat_of(yn, yc) ==
    IF yn < yc THEN Ret("Channel slope is steep")
    ELSE IF yn > yc THEN Ret("Channel slope is mild")
    ELSE Raise("UnboundLocalError")

slope_cat == slope_cat_of(norm_depth, crit_depth)

(* ---- downstream (source.py:115-163) ---- *)
(* downstream_of with the M2 zone answering as the M1 zone does *)
downstream_of_m2(yn, yc, py1, py2) ==
    IF (py1 = None \/ py2 = None) \/ (py1 - py2 = 0) THEN "None"
    ELSE IF yn > yc
         THEN IF py1 > yn
              THEN (IF py1 > py2 THEN Point1 ELSE Point2)
              ELSE IF py1 < yc
                   THEN (IF py1 > py2 THEN Point1 ELSE Point2)
                   ELSE (IF py1 > py2 THEN Point1 ELSE Point2)
         ELSE IF py1 > yc
              THEN (IF py1 > py2 THEN Point1 ELSE Point2)
              ELSE IF py1 < yn
                   THEN (IF py1 > py2 THEN Point1 ELSE Point2)
                   ELSE (IF py1 > py2 THEN Point2 ELSE Point1)

(* downstream_of with the M1 zone comparing y1 with yn instead of y2 *)
downstream_of_m1(yn, yc, py1, py2) ==
    IF (py1 = None \/ py2 = None) \/ (py1 - py2 = 0) THEN "None"
    ELSE IF yn > yc
         THEN IF py1 > yn
              THEN (IF py1 > yn THEN Point1 ELSE Point2)
              ELSE IF py1 < yc
                   THEN (IF py1 > py2 THEN Point1 ELSE Point2)
                   ELSE (IF py1 > py2 THEN Point2 ELSE Point1)
         ELSE IF py1 > yc
              THEN (IF py1 > py2 THEN Point1 ELSE Point2)
              ELSE IF py1 < yn
                   THEN (IF py1 > py2 THEN Point1 ELSE Point2)
                   ELSE (IF py1 > py2 THEN Point2 ELSE Point1)

downstream_of(yn, yc, py1, py2) ==
    IF (py1 = None \/ py2 = None) \/ (py1 - py2 = 0) THEN "None"
    ELSE IF yn > yc
         THEN IF py1 > yn
              THEN (IF py1 > py2 THEN Point1 ELSE Point2)
              ELSE IF py1 < yc
                   THEN (IF py1 > py2 THEN Point1 ELSE Point2)
                   ELSE (IF py1 > py2 THEN Point2 ELSE Point1)
         ELSE IF py1 > yc
              THEN (IF py1 > py2 THEN Point1 ELSE Point2)
              ELSE IF py1 < yn
                   THEN (IF py1 > py2 THEN Point1 ELSE Point2)
                   ELSE (IF py1 > py2 THEN Point2 ELSE Point1)

downstream == downstream_of(norm_depth, crit_depth, self.y1, self.y2)

(* ---- one sample of direct_step (source.py:199-234) ---- *)
velocity(a) == FDiv(self.q, a)

vel_head(v) == FDiv(FMul(self.alpha, FMul(v, v)), two_g)

spec_energy(d, vhead) == d + vhead

friction_slope(a, r) ==
    LET t == FDiv(FMul(self.q, self.n), FMul(FMul(K149, a), FPow23(r)))
    IN  FMul(t, t)

delta_e_of(e) == IF i = 0 THEN 0 ELSE e - e_list[i]

sf_avg_of(sf) == IF i = 0 THEN 0 ELSE (sf + sf_list[i]) \div 2

(* delta_x_of with the two slopes of the denominator exchanged *)
delta_x_of_swapped(de, sfavg) ==
    IF i = 0 THEN Num(0) ELSE XDiv(de, sfavg - self.slope)

delta_x_of(de, sfavg) ==
    IF i = 0 THEN Num(0) ELSE XDiv(de, self.slope - sfavg)

cum_x_of(dx) == IF i = 0 THEN Num(0) ELSE XAdd(dx, cum_x_list[i])

(* while y < ystop (source.py:198): after i > 0 additions of step the float y *)
(* equals ystart + i * step up to rounding, so at y = ystop the test is decided *)
(* by the sign of the rounding error                                            *)
LoopGuard == y < ystop \/ (y = ystop /\ i > 0 /\ yround < 0)

(* np.linspace(a, c, num) (source.py:254-256) *)
NPoints == 1001

linspace(a, c, num) == [k \in 1..num |-> a + ((k - 1) * (c - a)) \div (num - 1)]

(* ---- construction (source.py:26-38) ---- *)
(* depths k * NSteps, for which the step and every y + step are exact, and *)
(* one pair of depths a single unit of resolution apart, for which the     *)
(* step is lost to rounding                                                *)
Depths(kmax) == {k * NSteps : k \in 1..kmax}

DepthPairs ==
    ((Depths(MaxDepthK) \cup {None}) \X (Depths(MaxDepthK) \cup {None}))
    \cup {<<NSteps, NSteps + 1>>, <<NSteps + 1, NSteps>>}

(* a trapezoidal section of bottom width 1 ft, side slopes 0 and 0.5,      *)
(* n = 153 / FScale, q = 12 cfs, alpha = 1, with a mild (yn above both     *)
(* deeper depths), a mild (yn below them), a critical and a steep bed slope *)
Slopes == {64, 768, 1000, 1100}

Channel(s, d1, d2) ==
    [b |-> FScale, zleft |-> 0, zright |-> FScale \div 2, n |-> 153,
     slope |-> s, q |-> 12 * FScale, y1 |-> d1, y2 |-> d2, alpha |-> FScale]

(* arguments of the geometry queries, and of direct_step(tograph) *)
QueryDepths == {NSteps, 2 * NSteps}
ToGraph == {None, 1}

NoProbe == [op |-> "", arg |-> None]
Probes ==
    [op : {"top", "area", "wet_perim", "hyd_rad"}, arg : {NSteps}]
    \cup [op : {"norm_depth", "crit_depth", "slope_cat", "downstream"}, arg : {None}]
    \cup [op : {"direct_step"}, arg : ToGraph]

NotCalled == [done |-> FALSE, again |-> FALSE, res |-> Pending]

NoTable == [yn |-> 0, yc |-> 0, y1 |-> None, y2 |-> None,
            down |-> "?", swapped |-> "?", cat |-> Pending]

LocalsInit ==
    /\ step = 0 /\ ystart = 0 /\ ystop = 0 /\ y = 0 /\ i = 0
    /\ a_list = <<>> /\ r_list = <<>> /\ v_list = <<>> /\ vhead_list = <<>>
    /\ e_list = <<>> /\ delta_e_list = <<>> /\ sf_list = <<>>
    /\ sf_avg_list = <<>> /\ delta_x_list = <<>> /\ cum_x_list = <<>>

Rounding(s) ==
    IF s.y1 # None /\ s.y2 # None /\ Abs(s.y1 - s.y2) >= NSteps
    THEN {-1, 0} ELSE {0}

Init ==
    /\ self \in {Channel(s, p[1], p[2]) : s \in Slopes, p \in DepthPairs}
    /\ yround \in Rounding(self)
    /\ pc = "idle"
    /\ LocalsInit
    /\ op = "" /\ arg = None /\ res = Pending
    /\ probe = NoProbe /\ first = NotCalled
    /\ tbl = NoTable

(* ---- the calls ---- *)
Call(o, a, r) ==
    /\ op' = o /\ arg' = a /\ res' = r
    /\ first' = IF probe.op = o /\ probe.arg = a
                THEN IF first.done THEN [first EXCEPT !.again = TRUE]
                     ELSE [done |-> TRUE, again |-> FALSE, res |-> r]
                ELSE first
    /\ UNCHANGED <<fields, probe, tbl>>

Top ==
    /\ pc = "idle"
    /\ \E d \in QueryDepths : Call("top", d, Ret(top(d)))
    /\ UNCHANGED <<pc, locals>>

Area ==
    /\ pc = "idle"
    /\ \E d \in QueryDepths : Call("area", d, Ret(area(d)))
    /\ UNCHANGED <<pc, locals>>

WetPerim ==
    /\ pc = "idle"
    /\ \E d \in QueryDepths : Call("wet_perim", d, Ret(wet_perim(d)))
    /\ UNCHANGED <<pc, locals>>

HydRad ==
    /\ pc = "idle"
    /\ \E d \in QueryDepths : Call("hyd_rad", d, Ret(hyd_rad(d)))
    /\ UNCHANGED <<pc, locals>>

NormDepth ==
    /\ pc = "idle"
    /\ Call("norm_depth", None, Ret(norm_depth))
    /\ UNCHANGED <<pc, locals>>

CritDepth ==
    /\ pc = "idle"
    /\ Call("crit_depth", None, Ret(crit_depth))
    /\ UNCHANGED <<pc, locals>>

SlopeCat ==
    /\ pc = "idle"
    /\ Call("slope_cat", None, slope_cat)
    /\ UNCHANGED <<pc, locals>>

Downstream ==
    /\ pc = "idle"
    /\ Call("downstream", None, Ret(downstream))
    /\ UNCHANGED <<pc, locals>>


(* direct_step_begin storing the sorted depths back into the Channel *)
direct_step_begin_inplace ==
    /\ step' = Abs(self.y1 - self.y2) \div NSteps
    /\ ystart' = IF self.y1 < self.y2 THEN self.y1 ELSE self.y2
    /\ ystop' = IF self.y1 > self.y2 THEN self.y1 ELSE self.y2
    /\ a_list' = <<>> /\ r_list' = <<>> /\ v_list' = <<>>
    /\ vhead_list' = <<>> /\ e_list' = <<>> /\ delta_e_list' = <<>>
    /\ sf_list' = <<>> /\ sf_avg_list' = <<>> /\ delta_x_list' = <<>>
    /\ cum_x_list' = <<>>
    /\ y' = ystart' /\ i' = 0
    /\ self' = [self EXCEPT !.y1 = ystart', !.y2 = ystop']
    /\ UNCHANGED yround

(* direct_step, lines 176-196: the step, the bounds of the march and the *)
(* empty lists; only locals are written                                  *)
direct_step_begin ==
    /\ step' = Abs(self.y1 - self.y2) \div NSteps
    /\ ystart' = IF self.y1 < self.y2 THEN self.y1 ELSE self.y2
    /\ ystop' = IF self.y1 > self.y2 THEN self.y1 ELSE self.y2
    /\ a_list' = <<>> /\ r_list' = <<>> /\ v_list' = <<>>
    /\ vhead_list' = <<>> /\ e_list' = <<>> /\ delta_e_list' = <<>>
    /\ sf_list' = <<>> /\ sf_avg_list' = <<>> /\ delta_x_list' = <<>>
    /\ cum_x_list' = <<>>
    /\ y' = ystart' /\ i' = 0
    /\ UNCHANGED fields

(* a call of direct_step: abs(None - None) raises TypeError (line 176); *)
(* tograph is first read at line 244, so it is drawn when the loop ends *)
DirectStepCall ==
    /\ pc = "idle"
    /\ IF self.y1 = None \/ self.y2 = None
       THEN /\ \E t \in ToGraph : Call("direct_step", t, Raise("TypeError"))
            /\ UNCHANGED <<pc, locals>>
       ELSE /\ pc' = "loop"
            /\ direct_step_begin
            /\ op' = "direct_step" /\ arg' = None /\ res' = Pending
            /\ UNCHANGED <<probe, first, tbl>>

(* direct_step, lines 198-239: one iteration of the while loop *)
DirectStepLoop ==
    /\ pc = "loop" /\ LoopGuard
    /\ i < NSteps + 1 + MaxOverrun
    /\ LET a == area(y)
           r == hyd_rad(y)
           v == velocity(a)
           vhead == vel_head(v)
           e == spec_energy(y, vhead)
           de == delta_e_of(e)
           sf == friction_slope(a, r)
           sfavg == sf_avg_of(sf)
           dx == delta_x_of(de, sfavg)
       IN  /\ a_list' = Append(a_list, a)
           /\ r_list' = Append(r_list, r)
           /\ v_list' = Append(v_list, v)
           /\ vhead_list' = Append(vhead_list, vhead)
           /\ e_list' = Append(e_list, e)
           /\ delta_e_list' = Append(delta_e_list, de)
           /\ sf_list' = Append(sf_list, sf)
           /\ sf_avg_list' = Append(sf_avg_list, sfavg)
           /\ delta_x_list' = Append(delta_x_list, dx)
           /\ cum_x_list' = Append(cum_x_list, cum_x_of(dx))
    /\ i' = i + 1
    /\ y' = y + step
    /\ UNCHANGED <<fields, pc, step, ystart, ystop, op, arg, res, probe, first, tbl>>

(* direct_step, lines 242-275: print the distance, then plot if asked to; *)
(* plt.plot raises ValueError when x and y differ in length               *)
direct_step_result(t) ==
    IF cum_x_list = <<>> THEN Raise("IndexError")
    ELSE LET printed == <<XAbs(cum_x_list[Len(cum_x_list)])>>
             x == [k \in 1..Len(cum_x_list) |-> XAbs(cum_x_list[k])]
             d == downstream
             yy == IF d = Point1 THEN linspace(self.y2, self.y1, NPoints)
                   ELSE linspace(self.y1, self.y2, NPoints)
         IN  IF t = None
             THEN [exc |-> "", ret |-> "None", out |-> printed, plot |-> <<>>]
             ELSE IF d # Point1 /\ d # Point2
             THEN [exc |-> "", ret |-> "Upstream point could not be determined",
                   out |-> printed, plot |-> <<>>]
             ELSE [exc |-> IF Len(x) = Len(yy) THEN "" ELSE "ValueError",
                   ret |-> "None", out |-> printed, plot |-> <<x, yy>>]

DirectStepReturn ==
    /\ pc = "loop" /\ ~LoopGuard
    /\ \E t \in ToGraph : Call("direct_step", t, direct_step_result(t))
    /\ pc' = "idle"
    /\ step' = 0 /\ ystart' = 0 /\ ystop' = 0 /\ y' = 0 /\ i' = 0
    /\ a_list' = <<>> /\ r_list' = <<>> /\ v_list' = <<>> /\ vhead_list' = <<>>
    /\ e_list' = <<>> /\ delta_e_list' = <<>> /\ sf_list' = <<>>
    /\ sf_avg_list' = <<>> /\ delta_x_list' = <<>> /\ cum_x_list' = <<>>

Next ==
    \/ Top \/ Area \/ WetPerim \/ HydRad
    \/ NormDepth \/ CritDepth \/ SlopeCat \/ Downstream
    \/ DirectStepCall \/ DirectStepLoop \/ DirectStepReturn

Spec == Init /\ [][Next]_vars

(* ---- calls with one of them watched ---- *)
InitCalls ==
    /\ self \in {Channel(64, d1, d2) :
                 d1 \in QueryDepths \cup {None},
                 d2 \in QueryDepths \cup {None}}
    /\ yround = 0
    /\ pc = "idle"
    /\ LocalsInit
    /\ op = "" /\ arg = None /\ res = Pending
    /\ probe \in Probes /\ first = NotCalled
    /\ tbl = NoTable

SpecCalls == InitCalls /\ [][Next]_vars

(* ---- the decision tables applied to any yn, yc, y1, y2 ---- *)
MaxTbl == 4

InitTable ==
    /\ tbl \in [yn : 1..MaxTbl, yc : 1..MaxTbl,
                y1 : 1..MaxTbl \cup {None}, y2 : 1..MaxTbl \cup {None},
                down : {"?"}, swapped : {"?"}, cat : {Pending}]
    /\ self = Channel(64, None, None)
    /\ yround = 0
    /\ pc = "idle"
    /\ LocalsInit
    /\ op = "" /\ arg = None /\ res = Pending
    /\ probe = NoProbe /\ first = NotCalled

TableDownstream ==
    /\ tbl.down = "?"
    /\ tbl' = [tbl EXCEPT !.down = downstream_of(tbl.yn, tbl.yc, tbl.y1, tbl.y2)]
    /\ UNCHANGED <<fields, pc, locals, op, arg, res, probe, first>>

TableSwapped ==
    /\ tbl.swapped = "?"
    /\ tbl' = [tbl EXCEPT !.swapped = downstream_of(tbl.yn, tbl.yc, tbl.y2, tbl.y1)]
    /\ UNCHANGED <<fields, pc, locals, op, arg, res, probe, first>>

TableSlopeCat ==
    /\ tbl.cat = Pending
    /\ tbl' = [tbl EXCEPT !.cat = slope_cat_of(tbl.yn, tbl.yc)]
    /\ UNCHANGED <<fields, pc, locals, op, arg, res, probe, first>>

NextTable == TableDownstream \/ TableSwapped \/ TableSlopeCat

SpecTable == InitTable /\ [][NextTable]_vars
(* ======================= the claims ======================= *)

BothPresent == self.y1 # None /\ self.y2 # None

(* the rule of the table that py1's zone selects: TRUE when the deeper *)
(* point is downstream, FALSE when it is upstream                      *)
DeeperDownstream(yn, yc, py1) ==
    IF yn > yc THEN py1 > yn \/ py1 < yc
    ELSE py1 > yc \/ py1 < yn

TablePair == tbl.y1 # None /\ tbl.y2 # None /\ tbl.y1 # tbl.y2

(* C1: for every yn, yc and present y1 # y2, downstream() answers by the  *)
(* rule of y1's zone: Point 1 is downstream exactly when (deeper          *)
(* downstream and y1 > y2) or (deeper upstream and y1 < y2), else Point 2; *)
(* the deeper-upstream zone is yc <= y1 <= yn (mild), yn <= y1 <= yc (steep) *)
C1_DecisionTable ==
    (tbl.down # "?" /\ TablePair) =>
        LET dd == DeeperDownstream(tbl.yn, tbl.yc, tbl.y1)
        IN  /\ ~dd <=> IF tbl.yn > tbl.yc
                       THEN tbl.yc <= tbl.y1 /\ tbl.y1 <= tbl.yn
                       ELSE tbl.yn <= tbl.y1 /\ tbl.y1 <= tbl.yc
            /\ tbl.down = Point1 <=>
                   ((dd /\ tbl.y1 > tbl.y2) \/ (~dd /\ tbl.y1 < tbl.y2))
            /\ tbl.down # Point1 => tbl.down = Point2

C1_Witness ==
    /\ tbl.down = Point1 /\ TablePair
    /\ tbl.yn > tbl.yc /\ tbl.yc < tbl.y1 /\ tbl.y1 < tbl.yn /\ tbl.y1 < tbl.y2

(* C2: slope_cat() always completes, with steep when yn < yc, mild when *)
(* yn > yc, and a third outcome the caller can observe when yn = yc     *)
C2_SlopeCatTotal ==
    (op = "slope_cat") =>
        /\ res.exc = ""
        /\ norm_depth < crit_depth => res.ret = "Channel slope is steep"
        /\ norm_depth > crit_depth => res.ret = "Channel slope is mild"
        /\ norm_depth = crit_depth =>
               res.ret \notin {"Channel slope is steep", "Channel slope is mild"}

(* C3: with both depths present and y1 = y2, downstream() and direct_step() *)
(* fail with MissingDepthsError or AmbiguousDirectionError, and no distance *)
(* is reported                                                              *)
C3_EqualDepthsFail ==
    (pc = "idle" /\ op \in {"downstream", "direct_step"}
     /\ BothPresent /\ self.y1 = self.y2) =>
        /\ res.exc \in {"MissingDepthsError", "AmbiguousDirectionError"}
        /\ res.out = <<>>

(* C4: a sample i >= 1 whose denominator slope - sf_avg is zero stops the *)
(* invocation: no delta_x or cum_x is computed from it, and no distance   *)
(* that is not a number is reported                                       *)
C4_SingularStepStops ==
    /\ (pc = "loop" /\ i >= 2) => self.slope - sf_avg_list[i] # 0
    /\ (pc = "idle" /\ op = "direct_step" /\ res.out # <<>>) =>
           res.out[1].k = "num"

(* C5: for present y1 # y2 the march takes exactly N+1 samples, sample i at *)
(* depth ystart + i * step, the last one at the deeper depth ystop          *)
C5_TraceCoversInterval ==
    /\ (pc = "loop") => y = ystart + i * step
    /\ (pc = "loop" /\ ~LoopGuard /\ self.y1 # self.y2) =>
           /\ i = NSteps + 1
           /\ Len(cum_x_list) = NSteps + 1
           /\ y - step = ystop

RunNonSingular == \A k \in 1..Len(delta_x_list) : delta_x_list[k].k = "num"

(* C6 as stated: in every run without a singular sample X_0 = 0 and *)
(* X_i >= X_(i-1) for every i >= 1                                   *)
C6_MonotoneDistance ==
    (pc = "loop" /\ ~LoopGuard /\ i >= 1 /\ RunNonSingular) =>
        /\ cum_x_list[1] = Num(0)
        /\ \A k \in 2..i : cum_x_list[k].v >= cum_x_list[k - 1].v

(* C6 as amended: X_0 = 0, and at every sample i >= 1 that is not singular *)
(* X_i = X_(i-1) + dE_i / (slope - sf_avg_i); X_i >= X_(i-1) when dE_i and *)
(* the denominator do not have opposite signs, X_i <= X_(i-1) when they do *)
C6_StepSign ==
    (pc = "loop" /\ i >= 1) =>
        /\ cum_x_list[1] = Num(0)
        /\ (i >= 2 /\ delta_x_list[i].k = "num" /\ cum_x_list[i - 1].k = "num") =>
               LET de == delta_e_list[i]
                   dn == self.slope - sf_avg_list[i]
                   prev == cum_x_list[i - 1].v
                   cur == cum_x_list[i].v
               IN  /\ cum_x_list[i].k = "num"
                   /\ cur = prev + FDiv(de, dn)
                   /\ Sgn(de) * Sgn(dn) >= 0 => cur >= prev
                   /\ Sgn(de) * Sgn(dn) <= 0 => cur <= prev

C6_Witness ==
    /\ pc = "loop" /\ i >= 2 /\ delta_x_list[i].k = "num"
    /\ delta_e_list[i] > 0 /\ self.slope - sf_avg_list[i] < 0
    /\ cum_x_list[i].v < cum_x_list[i - 1].v

(* C7: no operation changes a field of the Channel, and a watched call *)
(* that is repeated, after any calls in between, returns what it       *)
(* returned the first time                                             *)
C7_NoHiddenState ==
    /\ []((pc = "idle" /\ first.done /\ op = probe.op /\ arg = probe.arg) =>
             res = first.res)
    /\ [][self' = self]_vars

C7_Witness ==
    /\ pc = "idle" /\ first.again /\ op = "direct_step" /\ probe.op = "direct_step"
    /\ arg = probe.arg /\ arg # None /\ res.out # <<>>

(* C8: for every pair of present depths the while loop of direct_step  *)
(* ends after at most N+1 samples: the loop goes on only while fewer    *)
(* than N+1 samples are taken, and the depth advances in every iteration *)
C8_LoopBounded ==
    (pc = "loop") =>
        /\ i <= NSteps + 1
        /\ LoopGuard => i <= NSteps
        /\ Len(cum_x_list) = i
        /\ i > 0 => y > ystart

(* C9: the profile handed to the plot runs from the upstream point to the *)
(* downstream point in matching pairs: equal lengths, first pair          *)
(* (0, upstream depth), last pair (total distance, downstream depth), and *)
(* each depth paired with the distance the march found between the        *)
(* upstream depth and it                                                  *)
ProfileMatches(x, yy, total) ==
    LET up == IF downstream = Point1 THEN self.y2 ELSE self.y1
        dn == IF downstream = Point1 THEN self.y1 ELSE self.y2
        at(d) == (d - ystart) \div step + 1
    IN  /\ Len(x) = Len(yy)
        /\ x[1] = Num(0) /\ yy[1] = up
        /\ x[Len(x)] = total /\ yy[Len(yy)] = dn
        /\ \A k \in 1..Len(x) :
               /\ at(yy[k]) \in 1..Len(cum_x_list)
               /\ at(up) \in 1..Len(cum_x_list)
               /\ x[k].k = "num"
               /\ x[k].v = Abs(cum_x_list[at(yy[k])].v - cum_x_list[at(up)].v)

C9_ProfileUpstreamToDownstream ==
    [][(pc = "loop" /\ pc' = "idle" /\ res'.plot # <<>>) =>
           ProfileMatches(res'.plot[1], res'.plot[2], res'.out[1])]_vars

(* C10 as stated: swapping the labels of two present depths a # b swaps *)
(* the answer, whatever zones a and b lie in                            *)
C10_LabelSymmetry ==
    (tbl.down # "?" /\ tbl.swapped # "?" /\ TablePair) =>
        (tbl.down = Point1 <=> tbl.swapped = Point2)

(* C10 as amended: swapping the labels swaps the answer when a and b *)
(* select the same rule of the table                                 *)
C10_LabelSymmetrySameRule ==
    (/\ tbl.down # "?" /\ tbl.swapped # "?" /\ TablePair
     /\ DeeperDownstream(tbl.yn, tbl.yc, tbl.y1)
            = DeeperDownstream(tbl.yn, tbl.yc, tbl.y2)) =>
        (tbl.down = Point1 <=> tbl.swapped = Point2)

C10_Witness ==
    /\ tbl.down = Point1 /\ tbl.swapped = Point2 /\ TablePair
    /\ tbl.yn > tbl.yc /\ tbl.y1 > tbl.yn /\ tbl.y2 > tbl.yn
====
